---- MODULE Spec2Model ----
(***************************************************************************)
(* Project Timeline Tracker (src/app.py): the record store of projects and *)
(* milestones, the request handlers that read and write it, and the status *)
(* derivation functions they call.                                         *)
(*                                                                         *)
(* Dates are day ordinals (integers); names are sequences of characters so *)
(* that to_title_case is computed, not assumed.  Each handler is one       *)
(* action: it works on the session's objects and the store changes only by *)
(* what the handler commits (a return without commit is rolled back).      *)
(* Only the POST branch of a form handler touches the store; the GET       *)
(* branch renders the form and is not an action of the model.              *)
(***************************************************************************)
EXTENDS Integers, Sequences, FiniteSets, TLC

VARIABLES projects, milestones, today, response, call

vars == <<projects, milestones, today, response, call>>

(***************************************************************************)
(* Bounds of the model.                                                    *)
(***************************************************************************)
\* Spec: rows of the project and of the milestone table
MaxProjects == 1
MaxMilestones == 2
\* ProjectSpec: rows of the project table
MaxNamedProjects == 2
\* the last date a form can submit; the clock runs one day past it
MaxDate == 2

\* dates a form can submit, and the days the clock can show
Dates == 1..MaxDate
Days == 1..(MaxDate + 1)

\* form inputs
ProjectNameInputs == { <<"a", "b">>, <<" ", "A", "B">>, <<"b", " ", "a">> }
ClientNameInputs == { <<"c">> }
MilestoneNameInputs == { <<"m">> }
PriorityInputs == { "Medium" }
StatusInputs == { "Not Started", "In Progress", "Completed" }
\* stored statuses the derivation can meet, one of them unrecognized
AnyStatus == StatusInputs \cup { "Overdue", "On Hold" }

(***************************************************************************)
(* to_title_case: text.strip().title(), the empty text returned as is.     *)
(***************************************************************************)
IsSpace(c) == c = " "
IsCased(c) == c \in { "a", "b", "c", "m", "A", "B", "C", "M" }

upper(c) ==
    CASE c = "a" -> "A" [] c = "b" -> "B" [] c = "c" -> "C" [] c = "m" -> "M"
      [] OTHER -> c

lower(c) ==
    CASE c = "A" -> "a" [] c = "B" -> "b" [] c = "C" -> "c" [] c = "M" -> "m"
      [] OTHER -> c

RECURSIVE lstrip(_)
lstrip(text) ==
    IF text # <<>> /\ IsSpace(Head(text)) THEN lstrip(Tail(text)) ELSE text

RECURSIVE rstrip(_)
rstrip(text) ==
    IF text # <<>> /\ IsSpace(text[Len(text)])
    THEN rstrip(SubSeq(text, 1, Len(text) - 1))
    ELSE text

strip(text) == rstrip(lstrip(text))

\* str.title(): a cased character is upper-cased when the character before
\* it is not cased, lower-cased otherwise
title(text) ==
    [i \in 1..Len(text) |->
        IF IsCased(text[i])
        THEN IF i > 1 /\ IsCased(text[i - 1]) THEN lower(text[i]) ELSE upper(text[i])
        ELSE text[i]]

to_title_case(text) == IF text # <<>> THEN title(strip(text)) ELSE text

(***************************************************************************)
(* get_milestone_status(milestone, today)                                  *)
(***************************************************************************)
\* variant: a milestone in progress counts as overdue on its end date
get_milestone_status_due_on_end(milestone, day) ==
    IF milestone.status = "Completed" THEN "Completed"
    ELSE IF milestone.status = "In Progress"
         THEN IF milestone.end_date <= day THEN "Overdue" ELSE "In Progress"
         ELSE IF day < milestone.start_date THEN "Not Started"
              ELSE IF day > milestone.end_date THEN "Overdue"
              ELSE "In Progress"

\* variant: the automatic branch treats the start date as not yet started
get_milestone_status_late_start(milestone, day) ==
    IF milestone.status = "Completed" THEN "Completed"
    ELSE IF milestone.status = "In Progress"
         THEN IF milestone.end_date < day THEN "Overdue" ELSE "In Progress"
         ELSE IF day <= milestone.start_date THEN "Not Started"
              ELSE IF day > milestone.end_date THEN "Overdue"
              ELSE "In Progress"

\* variant: the In Progress branch is missing, every status but Completed
\* is derived from the dates alone
get_milestone_status_dates_only(milestone, day) ==
    IF milestone.status = "Completed" THEN "Completed"
    ELSE IF day < milestone.start_date THEN "Not Started"
         ELSE IF day > milestone.end_date THEN "Overdue"
         ELSE "In Progress"

get_milestone_status(milestone, day) ==
    IF milestone.status = "Completed" THEN "Completed"
    ELSE IF milestone.status = "In Progress"
         THEN IF milestone.end_date < day THEN "Overdue" ELSE "In Progress"
         ELSE IF day < milestone.start_date THEN "Not Started"
              ELSE IF day > milestone.end_date THEN "Overdue"
              ELSE "In Progress"

(***************************************************************************)
(* The store.                                                              *)
(***************************************************************************)
\* Project.milestones: the milestones whose project_id is the project's id
MilestonesOf(ms, pid) == { m \in DOMAIN ms : ms[m].project_id = pid }

\* the primary key given to a new row: one more than the largest in use
NewId(ids) == IF ids = {} THEN 1 ELSE (CHOOSE i \in ids : \A j \in ids : j <= i) + 1

\* Project.query.filter_by(project_name=name).first() finds a row
NameExists(ps, name) == \E p \in DOMAIN ps : ps[p].project_name = name

Remove(f, ids) == [i \in (DOMAIN f) \ ids |-> f[i]]

(***************************************************************************)
(* The completion percentage.  Python computes (completed / total) * 100   *)
(* in floating point; for the totals below MaxPercentMilestones the result *)
(* of int() and of round() on that float is the one computed here on the   *)
(* exact quotient (the two first differ at 29 of 50 and at 23 of 40).      *)
(***************************************************************************)
\* int(x): the fraction is dropped
int_percentage(completed, total) == (100 * completed) \div total

\* round(x): the nearest integer, a tie going to the even one
round_percentage(completed, total) ==
    LET q == (100 * completed) \div total
        r == (100 * completed) % total
    IN  IF 2 * r < total THEN q
        ELSE IF 2 * r > total THEN q + 1
        ELSE IF q % 2 = 0 THEN q ELSE q + 1

\* sum(1 for m in project.milestones if m.status == 'Completed')
completed(ms, pid) ==
    Cardinality({m \in MilestonesOf(ms, pid) : ms[m].status = "Completed"})

\* the helper function calculate_completion_percentage(project)
calculate_completion_percentage(ms, pid) ==
    IF MilestonesOf(ms, pid) = {}
    THEN 0
    ELSE int_percentage(completed(ms, pid), Cardinality(MilestonesOf(ms, pid)))

\* variant: the milestones still open are the ones counted
completion_percentage_open(ms, pid) ==
    IF MilestonesOf(ms, pid) = {}
    THEN 0
    ELSE int_percentage(Cardinality(MilestonesOf(ms, pid)) - completed(ms, pid),
                        Cardinality(MilestonesOf(ms, pid)))

\* the property Project.completion_percentage
completion_percentage(ms, pid) ==
    IF MilestonesOf(ms, pid) = {}
    THEN 0
    ELSE int_percentage(completed(ms, pid), Cardinality(MilestonesOf(ms, pid)))

NoCall == [fn |-> "none"]

Init ==
    /\ projects = << >>
    /\ milestones = << >>
    /\ today = 1
    /\ response = [op |-> "none", kind |-> "none", to |-> "none", error |-> "none",
                   shown |-> << >>]
    /\ call = NoCall


\* what the handler of endpoint op returns: a rendered template (with its
\* error, if any), a redirect to an endpoint, or the 404 of get_or_404.
\* shown is the sequence of numbers handed to the template or flashed to the
\* user (empty when there are none).
Respond(op, kind, to, error, shown) ==
    response' = [op |-> op, kind |-> kind, to |-> to, error |-> error,
                 shown |-> shown]

Render(op, template, error) == Respond(op, "render", template, error, << >>)

RenderWith(op, template, shown) == Respond(op, "render", template, "none", shown)

Redirect(op, endpoint) == Respond(op, "redirect", endpoint, "none", << >>)

NotFound(op) == Respond(op, "404", "none", "none", << >>)

\* flash(message, category): the application sets no secret key, so the
\* session is Flask's NullSession and storing the message in it raises
\* RuntimeError; the request ends there with status 500
FlashRaises(op) == Respond(op, "500", "none", "RuntimeError", << >>)

(***************************************************************************)
(* The clock: datetime.now().date() never moves backward.                  *)
(***************************************************************************)
Tick ==
    /\ today < MaxDate + 1
    /\ today' = today + 1
    /\ UNCHANGED <<projects, milestones, response, call>>

(***************************************************************************)
(* dashboard: GET /                                                        *)
(***************************************************************************)
\* variant: a project is overdue on its end date already
dashboard_project_status_on_end(project, day) ==
    IF project.end_date <= day THEN "Overdue"
    ELSE IF project.start_date <= day THEN "In Progress"
    ELSE "Not Started"

\* the automatic project status of the first loop
dashboard_project_status(project, day) ==
    IF project.end_date < day THEN "Overdue"
    ELSE IF project.start_date <= day THEN "In Progress"
    ELSE "Not Started"

\* variant: the overdue update does not spare Completed milestones
dashboard_milestone_status_any(milestone, day) ==
    IF milestone.end_date < day THEN "Overdue" ELSE milestone.status

\* variant: a milestone is overdue on its end date already
dashboard_milestone_status_on_end(milestone, day) ==
    IF milestone.end_date <= day /\ milestone.status # "Completed"
    THEN "Overdue"
    ELSE milestone.status

\* variant: the test is met on the end date already
dashboard_milestone_overdue_on_end(milestone, day) ==
    milestone.end_date <= day /\ milestone.status # "Completed"

\* the test of the second loop: the milestone is set to 'Overdue'
dashboard_milestone_overdue(milestone, day) ==
    milestone.end_date < day /\ milestone.status # "Completed"

\* the overdue update of the second loop
dashboard_milestone_status(milestone, day) ==
    IF dashboard_milestone_overdue(milestone, day)
    THEN "Overdue"
    ELSE milestone.status

dashboard ==
    /\ projects' = [p \in DOMAIN projects |->
          IF projects[p].status # "Completed"
          THEN [projects[p] EXCEPT !.status = dashboard_project_status(projects[p], today)]
          ELSE projects[p]]
    /\ milestones' = [m \in DOMAIN milestones |->
          IF milestones[m].project_id \in DOMAIN projects
          THEN [milestones[m] EXCEPT
                   !.status = dashboard_milestone_status(milestones[m], today)]
          ELSE milestones[m]]
    /\ Render("dashboard", "dashboard.html", "none")
    /\ UNCHANGED <<today, call>>

(***************************************************************************)
(* add_project: POST /add-project                                          *)
(***************************************************************************)
add_project(name_in, client_in, start_date, end_date) ==
    LET project_name == to_title_case(name_in)
        client_name == to_title_case(client_in)
        new_id == NewId(DOMAIN projects)
        new_project == [project_name |-> project_name,
                        client_name |-> client_name,
                        start_date |-> start_date,
                        end_date |-> end_date,
                        status |-> "Not Completed"]
    IN  IF NameExists(projects, project_name)
        THEN \* flash(...) comes before the render_template
             /\ FlashRaises("add_project")
             /\ UNCHANGED <<projects, milestones, today, call>>
        ELSE /\ projects' = (new_id :> new_project) @@ projects
             /\ Redirect("add_project", "dashboard")
             /\ UNCHANGED <<milestones, today, call>>

(***************************************************************************)
(* toggle_status: POST /toggle-status/<project_id>                         *)
(***************************************************************************)
\* variant: the update from the dates is missing
toggle_out_status_not_completed(project, day) == "Not Completed"

\* leaving Completed: 'Not Completed', then the status the dates give
toggle_out_status(project, day) ==
    IF project.end_date < day THEN "Overdue"
    ELSE IF project.start_date <= day THEN "In Progress"
    ELSE "Not Started"

\* variant: the loop stops after the first milestone whatever its status
all_completed_first_only(ms, pid, day) ==
    \A m \in MilestonesOf(ms, pid) :
        (\A n \in MilestonesOf(ms, pid) : m <= n)
            => get_milestone_status(ms[m], day) = "Completed"

\* the loop over project.milestones that computes all_completed
all_completed(ms, pid, day) ==
    \A m \in MilestonesOf(ms, pid) : get_milestone_status(ms[m], day) = "Completed"

toggle_status(project_id) ==
    IF project_id \notin DOMAIN projects
    THEN /\ NotFound("toggle_status")
         /\ UNCHANGED <<projects, milestones, today, call>>
    ELSE LET project == projects[project_id]
             status == IF project.status = "Completed"
                       THEN toggle_out_status(project, today)
                       ELSE IF all_completed(milestones, project_id, today)
                            THEN "Completed"
                            ELSE project.status
         IN  /\ projects' = [projects EXCEPT ![project_id].status = status]
             /\ Redirect("toggle_status", "view_project")
             /\ UNCHANGED <<milestones, today, call>>

(***************************************************************************)
(* view_project: GET /project/<project_id>                                 *)
(***************************************************************************)
\* len(project.milestones)
total_milestones(ms, pid) == Cardinality(MilestonesOf(ms, pid))

\* the milestones the loop counts: those whose actual status is 'Completed'
completed_milestones_count(ms, pid, day) ==
    Cardinality({m \in MilestonesOf(ms, pid) :
                    get_milestone_status(ms[m], day) = "Completed"})

\* the completion_percentage handed to the template
view_project_percentage(ms, pid, day) ==
    IF total_milestones(ms, pid) > 0
    THEN round_percentage(completed_milestones_count(ms, pid, day),
                          total_milestones(ms, pid))
    ELSE 0

view_project(project_id) ==
    IF project_id \notin DOMAIN projects
    THEN /\ NotFound("view_project")
         /\ UNCHANGED <<projects, milestones, today, call>>
    ELSE /\ milestones' = [m \in DOMAIN milestones |->
              IF milestones[m].project_id = project_id
              THEN [milestones[m] EXCEPT
                       !.status = get_milestone_status(milestones[m], today)]
              ELSE milestones[m]]
         /\ RenderWith("view_project", "view_project.html",
                       <<project_id,
                         completed_milestones_count(milestones, project_id, today),
                         total_milestones(milestones, project_id),
                         view_project_percentage(milestones, project_id, today)>>)
         /\ UNCHANGED <<projects, today, call>>


(***************************************************************************)
(* add_milestone: POST /add-milestone/<project_id>                         *)
(***************************************************************************)
\* variant: a start on the project's own start date is refused
add_milestone_validation_strict(project, start_date, end_date) ==
    IF start_date <= project.start_date THEN "start_before_project"
    ELSE IF end_date > project.end_date THEN "end_after_project"
    ELSE IF start_date > end_date THEN "start_after_end"
    ELSE "ok"

\* the three checks, in the order of the code; "ok" when none fails
add_milestone_validation(project, start_date, end_date) ==
    IF start_date < project.start_date THEN "start_before_project"
    ELSE IF end_date > project.end_date THEN "end_after_project"
    ELSE IF start_date > end_date THEN "start_after_end"
    ELSE "ok"

add_milestone(project_id, name_in, start_date, end_date, status, priority) ==
    IF project_id \notin DOMAIN projects
    THEN /\ NotFound("add_milestone")
         /\ UNCHANGED <<projects, milestones, today, call>>
    ELSE LET project == projects[project_id]
             error == add_milestone_validation(project, start_date, end_date)
             new_id == NewId(DOMAIN milestones)
             new_milestone == [project_id |-> project_id,
                               milestone_name |-> to_title_case(name_in),
                               start_date |-> start_date,
                               end_date |-> end_date,
                               status |-> status,
                               priority |-> priority]
         IN  IF error # "ok"
             THEN /\ Render("add_milestone", "add_milestone.html", error)
                  /\ UNCHANGED <<projects, milestones, today, call>>
             ELSE /\ milestones' = (new_id :> new_milestone) @@ milestones
                  /\ Redirect("add_milestone", "view_project")
                  /\ UNCHANGED <<projects, today, call>>

(***************************************************************************)
(* edit_milestone: POST /edit-milestone/<milestone_id>                     *)
(***************************************************************************)
edit_milestone_validation(project, start_date, end_date) ==
    IF start_date < project.start_date THEN "start_before_project"
    ELSE IF end_date > project.end_date THEN "end_after_project"
    ELSE IF start_date > end_date THEN "start_after_end"
    ELSE "ok"

\* variant: the project is left as it is
edit_milestone_project_status_kept(project, old_status, new_status) ==
    project.status

\* the project status after an accepted edit
edit_milestone_project_status(project, old_status, new_status) ==
    IF old_status = "Completed" /\ new_status # "Completed"
    THEN "Not Completed"
    ELSE project.status

\* variant: the name and the priority set before the checks are committed
\* when a check fails
edit_milestone_partial(milestone_id, name_in, start_date, end_date, new_status, priority) ==
    IF \/ milestone_id \notin DOMAIN milestones
       \/ milestones[milestone_id].project_id \notin DOMAIN projects
    THEN /\ NotFound("edit_milestone")
         /\ UNCHANGED <<projects, milestones, today, call>>
    ELSE LET milestone == milestones[milestone_id]
             project_id == milestone.project_id
             project == projects[project_id]
             old_status == milestone.status
             \* the session's object: name and priority are set before the checks
             edited == [milestone EXCEPT !.milestone_name = to_title_case(name_in),
                                         !.priority = priority]
             error == edit_milestone_validation(project, start_date, end_date)
         IN  IF error # "ok"
             THEN /\ milestones' = [milestones EXCEPT ![milestone_id] = edited]
                  /\ Render("edit_milestone", "edit_milestone.html", error)
                  /\ UNCHANGED <<projects, today, call>>
             ELSE /\ milestones' = [milestones EXCEPT ![milestone_id] =
                         [edited EXCEPT !.start_date = start_date,
                                        !.end_date = end_date,
                                        !.status = new_status]]
                  /\ projects' = [projects EXCEPT ![project_id].status =
                         edit_milestone_project_status(project, old_status, new_status)]
                  /\ Redirect("edit_milestone", "view_project")
                  /\ UNCHANGED <<today, call>>

edit_milestone(milestone_id, name_in, start_date, end_date, new_status, priority) ==
    IF \/ milestone_id \notin DOMAIN milestones
       \/ milestones[milestone_id].project_id \notin DOMAIN projects
    THEN /\ NotFound("edit_milestone")
         /\ UNCHANGED <<projects, milestones, today, call>>
    ELSE LET milestone == milestones[milestone_id]
             project_id == milestone.project_id
             project == projects[project_id]
             old_status == milestone.status
             \* the session's object: name and priority are set before the checks
             edited == [milestone EXCEPT !.milestone_name = to_title_case(name_in),
                                         !.priority = priority]
             error == edit_milestone_validation(project, start_date, end_date)
         IN  IF error # "ok"
             THEN \* returns without commit: the session's changes are dropped
                  /\ Render("edit_milestone", "edit_milestone.html", error)
                  /\ UNCHANGED <<projects, milestones, today, call>>
             ELSE /\ milestones' = [milestones EXCEPT ![milestone_id] =
                         [edited EXCEPT !.start_date = start_date,
                                        !.end_date = end_date,
                                        !.status = new_status]]
                  /\ projects' = [projects EXCEPT ![project_id].status =
                         edit_milestone_project_status(project, old_status, new_status)]
                  /\ Redirect("edit_milestone", "view_project")
                  /\ UNCHANGED <<today, call>>

(***************************************************************************)
(* edit_project: POST /edit-project/<project_id>                           *)
(***************************************************************************)
\* the two date checks of the handler
edit_project_validation(start_date, end_date) ==
    IF start_date > end_date THEN "start_after_end"
    ELSE IF end_date < start_date THEN "end_before_start"
    ELSE "ok"

\* variant: the lookup for another project of that name is missing
edit_project_unchecked(project_id, name_in, client_in, start_date, end_date) ==
    IF project_id \notin DOMAIN projects
    THEN /\ NotFound("edit_project")
         /\ UNCHANGED <<projects, milestones, today, call>>
    ELSE LET project == projects[project_id]
             edited == [project EXCEPT !.project_name = to_title_case(name_in),
                                       !.client_name = to_title_case(client_in)]
             error == edit_project_validation(start_date, end_date)
         IN  IF error # "ok"
             THEN /\ Render("edit_project", "edit_project.html", error)
                  /\ UNCHANGED <<projects, milestones, today, call>>
             ELSE /\ projects' = [projects EXCEPT ![project_id] =
                         [edited EXCEPT !.start_date = start_date,
                                        !.end_date = end_date]]
                  /\ Redirect("edit_project", "view_project")
                  /\ UNCHANGED <<milestones, today, call>>

edit_project(project_id, name_in, client_in, start_date, end_date) ==
    IF project_id \notin DOMAIN projects
    THEN /\ NotFound("edit_project")
         /\ UNCHANGED <<projects, milestones, today, call>>
    ELSE LET project == projects[project_id]
             new_project_name == to_title_case(name_in)
             new_client_name == to_title_case(client_in)
             \* the session's object: the names are set before the date checks
             edited == [project EXCEPT !.project_name = new_project_name,
                                       !.client_name = new_client_name]
             error == edit_project_validation(start_date, end_date)
         IN  IF /\ new_project_name # project.project_name
                /\ NameExists(projects, new_project_name)
             THEN \* flash(...) comes before the render_template
                  /\ FlashRaises("edit_project")
                  /\ UNCHANGED <<projects, milestones, today, call>>
             ELSE IF error # "ok"
             THEN \* returns without commit: the session's changes are dropped
                  /\ Render("edit_project", "edit_project.html", error)
                  /\ UNCHANGED <<projects, milestones, today, call>>
             ELSE /\ projects' = [projects EXCEPT ![project_id] =
                         [edited EXCEPT !.start_date = start_date,
                                        !.end_date = end_date]]
                  /\ Redirect("edit_project", "view_project")
                  /\ UNCHANGED <<milestones, today, call>>

(***************************************************************************)
(* gantt_chart: GET /gantt-chart                                           *)
(***************************************************************************)
\* the i-th project of Project.query.all(), in the order of the primary key
ProjectAt(ps, i) ==
    CHOOSE p \in DOMAIN ps : Cardinality({q \in DOMAIN ps : q < p}) = i - 1

\* projects_data: 'completion_percentage' of each project, in that order
gantt_chart ==
    /\ RenderWith("gantt_chart", "gantt_chart.html",
                  [i \in 1..Cardinality(DOMAIN projects) |->
                      completion_percentage(milestones, ProjectAt(projects, i))])
    /\ UNCHANGED <<projects, milestones, today, call>>

(***************************************************************************)
(* delete_project, delete_milestone, update_milestone_status               *)
(***************************************************************************)
\* variant: the relationship does not cascade the delete
delete_project_no_cascade(project_id) ==
    IF project_id \notin DOMAIN projects
    THEN /\ NotFound("delete_project")
         /\ UNCHANGED <<projects, milestones, today, call>>
    ELSE /\ projects' = Remove(projects, {project_id})
         /\ Redirect("delete_project", "dashboard")
         /\ UNCHANGED <<milestones, today, call>>

delete_project(project_id) ==
    IF project_id \notin DOMAIN projects
    THEN /\ NotFound("delete_project")
         /\ UNCHANGED <<projects, milestones, today, call>>
    ELSE /\ projects' = Remove(projects, {project_id})
         /\ milestones' = Remove(milestones, MilestonesOf(milestones, project_id))
         /\ Redirect("delete_project", "dashboard")
         /\ UNCHANGED <<today, call>>

delete_milestone(milestone_id) ==
    IF milestone_id \notin DOMAIN milestones
    THEN /\ NotFound("delete_milestone")
         /\ UNCHANGED <<projects, milestones, today, call>>
    ELSE /\ milestones' = Remove(milestones, {milestone_id})
         /\ Redirect("delete_milestone", "view_project")
         /\ UNCHANGED <<projects, today, call>>

(***************************************************************************)
(* delete_milestones: POST /delete-milestones.  The form field is a        *)
(* sequence of characters.                                                 *)
(***************************************************************************)
\* text.split(','): the pieces between the commas
RECURSIVE split(_)
split(text) ==
    IF \A i \in DOMAIN text : text[i] # ","
    THEN <<text>>
    ELSE LET i == CHOOSE k \in DOMAIN text :
                     text[k] = "," /\ \A j \in 1..(k - 1) : text[j] # ","
         IN  <<SubSeq(text, 1, i - 1)>> \o split(SubSeq(text, i + 1, Len(text)))

IsDigit(c) == c \in {"0", "1", "2", "3", "4", "5", "6", "7", "8", "9"}

DigitValue(c) ==
    CASE c = "0" -> 0 [] c = "1" -> 1 [] c = "2" -> 2 [] c = "3" -> 3
      [] c = "4" -> 4 [] c = "5" -> 5 [] c = "6" -> 6 [] c = "7" -> 7
      [] c = "8" -> 8 [] c = "9" -> 9

\* int(text) raises ValueError, for the characters of the inputs
IsValueError(text) == text = << >> \/ \E i \in DOMAIN text : ~IsDigit(text[i])

\* int(text) of a sequence of decimal digits
RECURSIVE int(_)
int(text) ==
    IF text = << >>
    THEN 0
    ELSE 10 * int(SubSeq(text, 1, Len(text) - 1)) + DigitValue(text[Len(text)])

\* [id.strip() for id in milestone_ids_str.split(',') if id.strip()]
stripped_ids(milestone_ids_str) ==
    LET pieces == split(milestone_ids_str)
        NotEmpty(piece) == piece # << >>
    IN  SelectSeq([i \in DOMAIN pieces |-> strip(pieces[i])], NotEmpty)

delete_milestones(milestone_ids_str) ==
    IF milestone_ids_str = << >>
    THEN \* flash('No milestones selected', 'warning')
         /\ FlashRaises("delete_milestones")
         /\ UNCHANGED <<projects, milestones, today, call>>
    ELSE LET ids == stripped_ids(milestone_ids_str)
         IN  IF \E i \in DOMAIN ids : IsValueError(ids[i])
             THEN \* flash('Invalid milestone IDs', 'error')
                  /\ FlashRaises("delete_milestones")
                  /\ UNCHANGED <<projects, milestones, today, call>>
             ELSE \* the loop deletes every listed milestone that is stored and
                  \* the commit stores that; the flash that follows the
                  \* commit raises, so neither message nor redirect follows
                  /\ milestones' = Remove(milestones,
                         {int(ids[i]) : i \in DOMAIN ids})
                  /\ FlashRaises("delete_milestones")
                  /\ UNCHANGED <<projects, today, call>>

update_milestone_status(milestone_id, new_status) ==
    IF milestone_id \notin DOMAIN milestones
    THEN /\ NotFound("update_milestone_status")
         /\ UNCHANGED <<projects, milestones, today, call>>
    ELSE /\ milestones' = IF new_status # ""
                          THEN [milestones EXCEPT ![milestone_id].status = new_status]
                          ELSE milestones
         /\ Redirect("update_milestone_status", "view_project")
         /\ UNCHANGED <<projects, today, call>>

(***************************************************************************)
(* The requests a client can make, with ids and form fields drawn from the *)
(* input sets.  A create request is offered while the new primary key is   *)
(* within the bound on the table.                                          *)
(***************************************************************************)
AddProject(np) ==
    /\ NewId(DOMAIN projects) <= np
    /\ \E n \in ProjectNameInputs, c \in ClientNameInputs, s \in Dates, e \in Dates :
          add_project(n, c, s, e)

EditProject(np) ==
    \E p \in 1..np, n \in ProjectNameInputs, c \in ClientNameInputs,
       s \in Dates, e \in Dates :
        edit_project(p, n, c, s, e)

ToggleStatus(np) == \E p \in 1..np : toggle_status(p)

ViewProject(np) == \E p \in 1..np : view_project(p)

AddMilestone(np, nm, statuses) ==
    /\ NewId(DOMAIN milestones) <= nm
    /\ \E p \in 1..np, n \in MilestoneNameInputs, s \in Dates, e \in Dates,
          st \in statuses, pr \in PriorityInputs :
          add_milestone(p, n, s, e, st, pr)

EditMilestone(nm, statuses) ==
    \E m \in 1..nm, n \in MilestoneNameInputs, s \in Dates, e \in Dates,
       st \in statuses, pr \in PriorityInputs :
        edit_milestone(m, n, s, e, st, pr)

DeleteProject(np) == \E p \in 1..np : delete_project(p)

DeleteMilestone(nm) == \E m \in 1..nm : delete_milestone(m)

\* the milestone_ids fields submitted: none, "1", "1, 2,3", "2,1", "1,x"
\* and "1,,1"
MilestoneIdsInputs ==
    { << >>,
      <<"1">>,
      <<"1", ",", " ", "2", ",", "3">>,
      <<"2", ",", "1">>,
      <<"1", ",", "x">>,
      <<"1", ",", ",", "1">> }

DeleteMilestones == \E ids \in MilestoneIdsInputs : delete_milestones(ids)

UpdateMilestoneStatus(nm) ==
    \E m \in 1..nm, st \in StatusInputs \cup {""} :
        update_milestone_status(m, st)

(***************************************************************************)
(* Spec: the handlers that read or write a status, with create, edit and   *)
(* delete by id, on a store of up to MaxProjects projects and              *)
(* MaxMilestones milestones, with the clock moving forward.                *)
(***************************************************************************)
Next ==
    \/ Tick
    \/ dashboard
    \/ AddProject(MaxProjects)
    \/ EditProject(MaxProjects)
    \/ ToggleStatus(MaxProjects)
    \/ ViewProject(MaxProjects)
    \/ AddMilestone(MaxProjects, MaxMilestones, StatusInputs)
    \/ EditMilestone(MaxMilestones, StatusInputs)
    \/ DeleteProject(MaxProjects)
    \/ DeleteMilestone(MaxMilestones)
    \/ UpdateMilestoneStatus(MaxMilestones)

Spec == Init /\ [][Next]_vars

(***************************************************************************)
(* StatusSpec: the status of up to MaxNamedProjects projects without       *)
(* milestones, under create, toggle and the dashboard, with the clock      *)
(* moving forward.                                                         *)
(***************************************************************************)
StatusNext ==
    \/ Tick
    \/ dashboard
    \/ AddProject(MaxNamedProjects)
    \/ ToggleStatus(MaxNamedProjects)

StatusSpec == Init /\ [][StatusNext]_vars

(***************************************************************************)
(* ProjectSpec: the project table alone, under create, edit and delete of  *)
(* up to MaxNamedProjects projects.                                        *)
(***************************************************************************)
ProjectNext ==
    \/ AddProject(MaxNamedProjects)
    \/ EditProject(MaxNamedProjects)
    \/ DeleteProject(MaxNamedProjects)

ProjectSpec == Init /\ [][ProjectNext]_vars

(***************************************************************************)
(* WriteSpec: the writes that carry dates (create and edit of projects and *)
(* of milestones) on up to MaxNamedProjects projects and MaxMilestones     *)
(* milestones; the clock stands still and every milestone is submitted as  *)
(* Not Started.                                                            *)
(***************************************************************************)
WriteStatusInputs == { "Not Started" }

WriteNext ==
    \/ AddProject(MaxNamedProjects)
    \/ EditProject(MaxNamedProjects)
    \/ AddMilestone(MaxNamedProjects, MaxMilestones, WriteStatusInputs)
    \/ EditMilestone(MaxMilestones, WriteStatusInputs)

WriteSpec == Init /\ [][WriteNext]_vars

(***************************************************************************)
(* PercentSpec: the three computations of the completion percentage, on    *)
(* one project of up to MaxPercentMilestones milestones that are submitted *)
(* as In Progress or as Completed.  calculate_completion_percentage is     *)
(* called by no route: Calculate applies it to a stored project and        *)
(* records the counts it saw with its result.  The clock stands still and  *)
(* every date is day 1, the percentage depending on no date.               *)
(***************************************************************************)
MaxPercentMilestones == 3

PercentDates == { 1 }

PercentStatusInputs == { "In Progress", "Completed" }

PercentAddProject ==
    /\ NewId(DOMAIN projects) <= MaxProjects
    /\ \E n \in ProjectNameInputs, c \in ClientNameInputs, d \in PercentDates :
          add_project(n, c, d, d)

PercentAddMilestone ==
    /\ NewId(DOMAIN milestones) <= MaxPercentMilestones
    /\ \E p \in 1..MaxProjects, n \in MilestoneNameInputs, d \in PercentDates,
          st \in PercentStatusInputs, pr \in PriorityInputs :
          add_milestone(p, n, d, d, st, pr)

Calculate ==
    /\ \E p \in DOMAIN projects :
          call' = [fn |-> "calculate_completion_percentage",
                   project_id |-> p,
                   total |-> Cardinality(MilestonesOf(milestones, p)),
                   completed |-> completed(milestones, p),
                   result |-> calculate_completion_percentage(milestones, p)]
    /\ UNCHANGED <<projects, milestones, today, response>>

PercentNext ==
    \/ PercentAddProject
    \/ PercentAddMilestone
    \/ ViewProject(MaxProjects)
    \/ gantt_chart
    \/ Calculate

PercentSpec == Init /\ [][PercentNext]_vars

(***************************************************************************)
(* FormSpec: create and edit of up to MaxNamedProjects projects and        *)
(* MaxFormMilestones milestones, where the forms offer two client names,   *)
(* two milestone names and two priorities, so that an edit can submit a    *)
(* value for every field that differs from the stored one.  The clock      *)
(* stands still and every milestone is submitted as Not Started.           *)
(***************************************************************************)
MaxFormMilestones == 1

FormClientNameInputs == { <<"c">>, <<"d">> }

FormMilestoneNameInputs == { <<"m">>, <<"n">> }

FormPriorityInputs == { "Medium", "High" }

FormAddProject ==
    /\ NewId(DOMAIN projects) <= MaxNamedProjects
    /\ \E n \in ProjectNameInputs, c \in FormClientNameInputs,
          s \in Dates, e \in Dates :
          add_project(n, c, s, e)

FormEditProject ==
    \E p \in 1..MaxNamedProjects, n \in ProjectNameInputs,
       c \in FormClientNameInputs, s \in Dates, e \in Dates :
        edit_project(p, n, c, s, e)

FormAddMilestone ==
    /\ NewId(DOMAIN milestones) <= MaxFormMilestones
    /\ \E p \in 1..MaxNamedProjects, n \in FormMilestoneNameInputs,
          s \in Dates, e \in Dates, pr \in FormPriorityInputs :
          add_milestone(p, n, s, e, "Not Started", pr)

FormEditMilestone ==
    \E m \in 1..MaxFormMilestones, n \in FormMilestoneNameInputs,
       s \in Dates, e \in Dates, pr \in FormPriorityInputs :
        edit_milestone(m, n, s, e, "Not Started", pr)

FormNext ==
    \/ FormAddProject
    \/ FormEditProject
    \/ FormAddMilestone
    \/ FormEditMilestone

FormSpec == Init /\ [][FormNext]_vars

(***************************************************************************)
(* DeleteSpec: create and delete of up to MaxNamedProjects projects and    *)
(* MaxMilestones milestones, the milestones one by one, with their project *)
(* or by a list of ids.  The clock stands still and every milestone is     *)
(* submitted as Not Started.                                               *)
(***************************************************************************)
DeleteNext ==
    \/ AddProject(MaxNamedProjects)
    \/ AddMilestone(MaxNamedProjects, MaxMilestones, WriteStatusInputs)
    \/ DeleteProject(MaxNamedProjects)
    \/ DeleteMilestone(MaxMilestones)
    \/ DeleteMilestones

DeleteSpec == Init /\ [][DeleteNext]_vars

(***************************************************************************)
(* EvalSpec: get_milestone_status on its own.  The stored status, the date *)
(* range and the day are drawn from bounded sets; the first step derives   *)
(* the status, the second writes the result back as the stored status (as  *)
(* view_project does) and derives again on the same day.                   *)
(***************************************************************************)
EvalDays == 0..(MaxDate + 1)

EvalInit ==
    /\ projects = << >>
    /\ milestones = << >>
    /\ today = 1
    /\ response = [op |-> "none", kind |-> "none", to |-> "none", error |-> "none",
                   shown |-> << >>]
    /\ \E st \in AnyStatus, s \in EvalDays, e \in EvalDays, t \in EvalDays :
          call = [fn |-> "get_milestone_status", given |-> st, status |-> st,
                  start_date |-> s, end_date |-> e, today |-> t, results |-> << >>]

Derive ==
    /\ call.results = << >>
    /\ call' = [call EXCEPT !.results = <<get_milestone_status(call, call.today)>>]
    /\ UNCHANGED <<projects, milestones, today, response>>

WriteBackAndDerive ==
    /\ Len(call.results) = 1
    /\ LET written == [call EXCEPT !.status = call.results[1]]
       IN  call' = [written EXCEPT
                       !.results = Append(@, get_milestone_status(written, call.today))]
    /\ UNCHANGED <<projects, milestones, today, response>>

EvalNext == Derive \/ WriteBackAndDerive

EvalSpec == EvalInit /\ [][EvalNext]_vars

(***************************************************************************)
(* OverdueSpec: the two computations that make a milestone overdue, on     *)
(* their own and side by side.  The stored status, the date range and the  *)
(* day are drawn from bounded sets; one step applies the test and the      *)
(* update of the dashboard's second loop, the other get_milestone_status   *)
(* as view_project and toggle_status call it, in either order.             *)
(***************************************************************************)
OverdueInit ==
    /\ projects = << >>
    /\ milestones = << >>
    /\ today = 1
    /\ response = [op |-> "none", kind |-> "none", to |-> "none", error |-> "none",
                   shown |-> << >>]
    /\ \E st \in AnyStatus, s \in EvalDays, e \in EvalDays, t \in EvalDays :
          call = [fn |-> "overdue", status |-> st,
                  start_date |-> s, end_date |-> e, today |-> t,
                  set_overdue |-> << >>, stored |-> << >>, actual_status |-> << >>]

DashboardUpdate ==
    /\ call.set_overdue = << >>
    /\ call' = [call EXCEPT
                   !.set_overdue = <<dashboard_milestone_overdue(call, call.today)>>,
                   !.stored = <<dashboard_milestone_status(call, call.today)>>]
    /\ UNCHANGED <<projects, milestones, today, response>>

ActualStatus ==
    /\ call.actual_status = << >>
    /\ call' = [call EXCEPT
                   !.actual_status = <<get_milestone_status(call, call.today)>>]
    /\ UNCHANGED <<projects, milestones, today, response>>

OverdueNext == DashboardUpdate \/ ActualStatus

OverdueSpec == OverdueInit /\ [][OverdueNext]_vars

(***************************************************************************)
(* Properties.                                                             *)
(***************************************************************************)
\* the effective status of a stored milestone: get_milestone_status at today
Effective(m) == get_milestone_status(milestones[m], today)

RespondedWith(op, kind, to, error) ==
    response = [op |-> op, kind |-> kind, to |-> to, error |-> error,
                shown |-> << >>]

\* C1: completion gating. A project whose stored status is Completed has
\* only milestones whose effective status at today is Completed.
C1_CompletionGating ==
    \A p \in DOMAIN projects :
        projects[p].status = "Completed"
            => \A m \in DOMAIN milestones :
                   milestones[m].project_id = p => Effective(m) = "Completed"

\* C2: nesting. Every stored milestone lies within its owning project:
\* project.start_date <= start_date <= end_date <= project.end_date.
C2_Nesting ==
    \A m \in DOMAIN milestones :
        milestones[m].project_id \in DOMAIN projects
            => LET project == projects[milestones[m].project_id]
               IN  /\ project.start_date <= milestones[m].start_date
                   /\ milestones[m].start_date <= milestones[m].end_date
                   /\ milestones[m].end_date <= project.end_date

\* C3: toggle_status on a project that is not Completed stores Completed
\* exactly when every milestone of the project is effectively Completed at
\* today; otherwise projects and milestones are left as they were; either way
\* the handler answers with its usual redirect to view_project.
C3_ToggleIntoCompletedGated ==
    [][\A p \in 1..MaxProjects :
         (/\ response'.op = "toggle_status"
          /\ toggle_status(p)
          /\ p \in DOMAIN projects
          /\ projects[p].status # "Completed")
         => /\ (projects'[p].status = "Completed"
                  <=> \A m \in DOMAIN milestones :
                         milestones[m].project_id = p => Effective(m) = "Completed")
            /\ (projects'[p].status # "Completed" => projects' = projects)
            /\ milestones' = milestones
            /\ response' = [op |-> "toggle_status", kind |-> "redirect",
                            to |-> "view_project", error |-> "none",
                            shown |-> << >>]]_vars

\* C3 witness: the toggle has just been refused on a project with one
\* milestone Completed and another not.
C3_Witness ==
    /\ RespondedWith("toggle_status", "redirect", "view_project", "none")
    /\ \E p \in DOMAIN projects :
          /\ projects[p].status # "Completed"
          /\ \E m, n \in MilestonesOf(milestones, p) :
                Effective(m) = "Completed" /\ Effective(n) # "Completed"

\* C4: a Completed milestone is never downgraded automatically.
\* get_milestone_status gives Completed for a stored Completed whatever the
\* dates and the day, and a dashboard or view_project step leaves every
\* stored Completed milestone Completed.
C4_CompletedNotDowngraded ==
    [][(/\ response'.op \in {"dashboard", "view_project"}
        /\ (dashboard \/ \E p \in 1..MaxProjects : view_project(p)))
       => /\ \A s \in EvalDays, e \in EvalDays, t \in EvalDays :
                get_milestone_status(
                    [status |-> "Completed", start_date |-> s, end_date |-> e], t)
                    = "Completed"
          /\ \A m \in DOMAIN milestones :
                milestones[m].status = "Completed"
                    => /\ m \in DOMAIN milestones'
                       /\ milestones'[m].status = "Completed"]_vars

\* C4 witness: the dashboard has run over a Completed milestone whose end
\* date has passed.
C4_Witness ==
    /\ RespondedWith("dashboard", "render", "dashboard.html", "none")
    /\ \E m \in DOMAIN milestones :
          /\ milestones[m].status = "Completed"
          /\ milestones[m].end_date < today

\* C5: for a stored status In Progress, get_milestone_status gives Overdue
\* when today > end_date and In Progress otherwise.
C5_InProgressDerivation ==
    (call.given = "In Progress" /\ call.results # << >>)
        => call.results[1] =
              IF call.today > call.end_date THEN "Overdue" ELSE "In Progress"

\* C5 witness: In Progress derived before the start date.
C5_Witness ==
    /\ call.given = "In Progress"
    /\ call.today < call.start_date
    /\ call.start_date <= call.end_date
    /\ call.results # << >>
    /\ call.results[1] = "In Progress"

\* C6: for a stored status Not Started, Overdue or unrecognized, the result
\* is given by the dates alone: Not Started before start_date, else Overdue
\* after end_date, else In Progress; it is never Completed.
C6_AutoDetectByDates ==
    (call.given \in {"Not Started", "Overdue", "On Hold"} /\ call.results # << >>)
        => /\ call.results[1] =
                 CASE call.today < call.start_date -> "Not Started"
                   [] call.today >= call.start_date /\ call.today > call.end_date
                        -> "Overdue"
                   [] OTHER -> "In Progress"
           /\ call.results[1] # "Completed"

\* C6 witness: an unrecognized status derived on the start date.
C6_Witness ==
    /\ call.given = "On Hold"
    /\ call.today = call.start_date
    /\ call.today < call.end_date
    /\ call.results # << >>
    /\ call.results[1] = "In Progress"

\* C7: fixed point. With start_date <= end_date, writing the derived status
\* back as the stored status and deriving again on the same day gives the
\* same status.
C7_FixedPoint ==
    (Len(call.results) = 2 /\ call.start_date <= call.end_date)
        => call.results[2] = call.results[1]

\* C7 witness: In Progress past its end date derives Overdue, and Overdue
\* written back derives Overdue again.
C7_Witness ==
    /\ call.given = "In Progress"
    /\ call.start_date <= call.end_date
    /\ call.end_date < call.today
    /\ call.status = "Overdue"
    /\ call.results = <<"Overdue", "Overdue">>

\* the error the fixed order of the checks reports for a refused date range
C8_FirstError(project, s, e) ==
    CASE s < project.start_date -> "start_before_project"
      [] s >= project.start_date /\ e > project.end_date -> "end_after_project"
      [] OTHER -> "start_after_end"

C8_DatesValid(project, s, e) ==
    project.start_date <= s /\ e <= project.end_date /\ s <= e

C9_ProjectRange ==
    \A p \in DOMAIN projects : projects[p].start_date <= projects[p].end_date

SameName(a, b) == to_title_case(a) = to_title_case(b)

C10_Unique ==
    \A p, q \in DOMAIN projects :
        p # q => ~SameName(projects[p].project_name, projects[q].project_name)

\* C10: no two stored projects have the same title-cased name; a create or
\* rename whose title-cased name is that of another stored project leaves
\* the project table unchanged, the request ending in the RuntimeError of
\* flash; an edit that keeps the project's own name is not taken for a
\* duplicate and, with valid dates, is stored.
C10_NameUniqueness ==
    [][/\ C10_Unique
       /\ C10_Unique'
       /\ \A n \in ProjectNameInputs, c \in ClientNameInputs,
             s \in Dates, e \in Dates :
             /\ (/\ response'.op = "add_project"
                 /\ add_project(n, c, s, e)
                 /\ \E q \in DOMAIN projects : SameName(projects[q].project_name, n))
                => /\ projects' = projects
                   /\ response' = [op |-> "add_project", kind |-> "500",
                                   to |-> "none", error |-> "RuntimeError",
                                   shown |-> << >>]
             /\ \A p \in DOMAIN projects :
                   (response'.op = "edit_project" /\ edit_project(p, n, c, s, e))
                   => IF \E q \in (DOMAIN projects) \ {p} :
                            SameName(projects[q].project_name, n)
                      THEN /\ projects' = projects
                           /\ response' = [op |-> "edit_project", kind |-> "500",
                                           to |-> "none",
                                           error |-> "RuntimeError",
                                           shown |-> << >>]
                      ELSE /\ response'.kind # "500"
                           /\ s <= e =>
                                /\ projects'[p].project_name = to_title_case(n)
                                /\ projects'[p].start_date = s
                                /\ projects'[p].end_date = e]_vars

\* C10 witness: a rename to the name of the other stored project has just
\* been refused.
C10_Witness ==
    /\ RespondedWith("edit_project", "500", "none", "RuntimeError")
    /\ Cardinality(DOMAIN projects) = 2

(***************************************************************************)
(* C11  Completion break on milestone edit.                                *)
(***************************************************************************)
\* C11: an accepted edit_milestone that takes a milestone from Completed to
\* another status while its project's stored status is Completed leaves the
\* project's stored status Not Completed in the very next state.
C11_CompletionBreak ==
    [][\A m \in DOMAIN milestones :
          ( /\ response'.op = "edit_milestone"
            /\ response'.kind = "redirect"
            /\ today' = today
            /\ milestones[m].status = "Completed"
            /\ m \in DOMAIN milestones'
            /\ milestones'[m].status # "Completed"
            /\ milestones[m].project_id \in DOMAIN projects
            /\ projects[milestones[m].project_id].status = "Completed" )
          => /\ milestones[m].project_id \in DOMAIN projects'
             /\ projects'[milestones[m].project_id].status = "Not Completed"]_vars

\* an accepted edit has just broken a completion: the project is
\* Not Completed and one of its milestones is no longer Completed
C11_Witness ==
    /\ response.op = "edit_milestone"
    /\ response.kind = "redirect"
    /\ \E m \in DOMAIN milestones :
          /\ milestones[m].status # "Completed"
          /\ milestones[m].project_id \in DOMAIN projects
          /\ projects[milestones[m].project_id].status = "Not Completed"
          /\ today > projects[milestones[m].project_id].end_date

(***************************************************************************)
(* C12  Toggle out of Completed.                                           *)
(***************************************************************************)
\* the automatic status of a project at a day, as the dates give it
AutomaticStatus(project, day) ==
    IF day > project.end_date THEN "Overdue"
    ELSE IF project.start_date <= day /\ day <= project.end_date THEN "In Progress"
    ELSE "Not Started"

\* C12: toggle_status on a project whose stored status is Completed stores
\* exactly the date-derived status at today (Overdue after the end date,
\* In Progress within the range, Not Started otherwise), never Completed and
\* never Not Completed, whatever the milestones are.
C12_ToggleOutOfCompleted ==
    [][\A p \in DOMAIN projects :
          ( /\ response'.op = "toggle_status"
            /\ projects[p].status = "Completed"
            /\ toggle_status(p) )
          => /\ projects'[p].status = AutomaticStatus(projects[p], today)
             /\ projects'[p].status \notin {"Completed", "Not Completed"}]_vars

\* a project has just been toggled out of Completed while one of its
\* milestones is still Completed
C12_Witness ==
    /\ response.op = "toggle_status"
    /\ response.kind = "redirect"
    /\ \E p \in DOMAIN projects :
          /\ projects[p].status = "Overdue"
          /\ MilestonesOf(milestones, p) # {}
          /\ \A m \in MilestonesOf(milestones, p) :
                 milestones[m].status = "Completed"

(***************************************************************************)
(* C13  Automatic project status on the dashboard.                         *)
(***************************************************************************)
\* the status the dates give a project at a day
C13_Automatic(project, day) ==
    IF day > project.end_date THEN "Overdue"
    ELSE IF project.start_date <= day THEN "In Progress"
    ELSE "Not Started"

\* C13: after dashboard at today every project whose stored status was not
\* Completed stores Overdue if today > end_date, else In Progress if
\* start_date <= today, else Not Started, so none remains Not Completed;
\* every project whose stored status was Completed is still Completed.
C13_DashboardProjectStatus ==
    [][( /\ response'.op = "dashboard"
         /\ today' = today )
       => /\ DOMAIN projects' = DOMAIN projects
          /\ \A p \in DOMAIN projects :
                IF projects[p].status # "Completed"
                THEN /\ projects'[p].status = C13_Automatic(projects[p], today)
                     /\ projects'[p].status # "Not Completed"
                ELSE projects'[p].status = "Completed"]_vars

\* the dashboard has just run over a Completed project and one that is
\* past its end date
C13_Witness ==
    /\ response.op = "dashboard"
    /\ \E p, q \in DOMAIN projects :
          /\ projects[p].status = "Completed"
          /\ projects[q].status = "Overdue"
          /\ projects[p].end_date < today

(***************************************************************************)
(* C14  Completion percentage boundaries.                                  *)
(***************************************************************************)
\* a percentage is within its boundaries for the stored project pid
C14_WithinBoundaries(percentage, pid) ==
    /\ percentage \in 0..100
    /\ MilestonesOf(milestones, pid) = {} => percentage = 0
    /\ ( /\ MilestonesOf(milestones, pid) # {}
         /\ \A m \in MilestonesOf(milestones, pid) : Effective(m) = "Completed" )
       => percentage = 100

\* C14: at each call site (calculate_completion_percentage,
\* Project.completion_percentage as gantt_chart reads it, view_project) the
\* percentage is 0 for a project without milestones, 100 when every
\* milestone evaluates Completed, and always within 0..100.
C14_PercentageBoundaries ==
    /\ ( /\ call.fn = "calculate_completion_percentage"
         /\ call.total = Cardinality(MilestonesOf(milestones, call.project_id))
         /\ call.completed = completed(milestones, call.project_id) )
       => C14_WithinBoundaries(call.result, call.project_id)
    /\ response.op = "gantt_chart"
       => \A i \in DOMAIN response.shown :
             C14_WithinBoundaries(response.shown[i], ProjectAt(projects, i))
    /\ (response.op = "view_project" /\ response.kind = "render")
       => C14_WithinBoundaries(response.shown[4], response.shown[1])

\* the project page has just shown 100 for a project all of whose
\* MaxPercentMilestones milestones are Completed, after the helper function
\* returned 0 for the project when it had no milestone
C14_Witness ==
    /\ response.op = "view_project"
    /\ response.kind = "render"
    /\ response.shown[3] = MaxPercentMilestones
    /\ response.shown[4] = 100
    /\ call.fn = "calculate_completion_percentage"
    /\ call.total = 0
    /\ call.result = 0

(***************************************************************************)
(* C15  The completion percentage is the rounded integer percentage.       *)
(***************************************************************************)
\* 100 * completed / total rounded to the nearest integer
C15_Rounded(completed_count, total) ==
    (200 * completed_count + total) \div (2 * total)

\* C15: for a project with total > 0 milestones of which completed are
\* Completed, calculate_completion_percentage, Project.completion_percentage
\* and view_project each yield 100 * completed / total rounded to the
\* nearest integer, and so agree (2 of 3 gives 67 at each).
C15_RoundedEverywhere ==
    /\ (call.fn = "calculate_completion_percentage" /\ call.total > 0)
       => call.result = C15_Rounded(call.completed, call.total)
    /\ response.op = "gantt_chart"
       => \A i \in DOMAIN response.shown :
             MilestonesOf(milestones, ProjectAt(projects, i)) # {}
                => response.shown[i] =
                      C15_Rounded(completed(milestones, ProjectAt(projects, i)),
                                  Cardinality(MilestonesOf(milestones,
                                                           ProjectAt(projects, i))))
    /\ ( /\ response.op = "view_project"
         /\ response.kind = "render"
         /\ response.shown[3] > 0 )
       => response.shown[4] = C15_Rounded(response.shown[2], response.shown[3])

(***************************************************************************)
(* C16  No partial write on validation failure.                            *)
(***************************************************************************)
\* C16: when edit_milestone or edit_project is rejected with a validation
\* error (date nesting, date ordering or name collision), every stored
\* field of the targeted record, milestone_name, priority, project_name and
\* client_name included, and of every other record is as it was before.
\* (A failed date check renders the form with its error; a name collision
\* ends in the RuntimeError of flash.)
C16_NoPartialWrite ==
    [][( /\ response'.op \in {"edit_milestone", "edit_project"}
         /\ \/ response'.kind = "render" /\ response'.error # "none"
            \/ response'.kind = "500" )
       => /\ projects' = projects
          /\ milestones' = milestones]_vars

\* an edit_milestone has just been rejected for its dates while two projects
\* and a milestone are stored whose client name, milestone name and priority
\* are the second ones the forms offer
C16_Witness ==
    /\ response.op = "edit_milestone"
    /\ response.kind = "render"
    /\ response.error = "end_after_project"
    /\ Cardinality(DOMAIN projects) = MaxNamedProjects
    /\ \E m \in DOMAIN milestones :
          /\ milestones[m].milestone_name = to_title_case(<<"n">>)
          /\ milestones[m].priority = "High"
          /\ projects[milestones[m].project_id].client_name = to_title_case(<<"d">>)

(***************************************************************************)
(* C17  Cascade delete, no orphans.                                        *)
(***************************************************************************)
\* C17: delete_project removes the project and all of its milestones and
\* nothing else, so that after any sequence of creates and deletes the
\* project_id of every stored milestone is the id of a stored project.
C17_CascadeDelete ==
    /\ [](\A m \in DOMAIN milestones : milestones[m].project_id \in DOMAIN projects)
    /\ [][( /\ response'.op = "delete_project"
             /\ response'.kind = "redirect" )
           => \E p \in DOMAIN projects :
                 /\ projects' = Remove(projects, {p})
                 /\ milestones' = Remove(milestones, MilestonesOf(milestones, p))]_vars

\* a project has just been deleted; the other project and the milestone
\* with the second id are still stored
C17_Witness ==
    /\ response.op = "delete_project"
    /\ response.kind = "redirect"
    /\ Cardinality(DOMAIN projects) = 1
    /\ DOMAIN milestones = {2}

(***************************************************************************)
(* C18  Bulk delete of milestones.                                         *)
(***************************************************************************)
\* the ids a well-formed list names
C18_Listed(milestone_ids_str) ==
    {int(stripped_ids(milestone_ids_str)[i]) :
        i \in DOMAIN stripped_ids(milestone_ids_str)}

\* C18: given a comma-separated list of ids, delete_milestones removes
\* exactly the stored milestones whose ids are listed, leaves every other
\* milestone and every project as it is, passes over the ids that are not
\* stored without an error, and reports as the deleted count the number of
\* milestones removed.
C18_BulkDelete ==
    [][\A ids \in MilestoneIdsInputs :
          ( /\ response'.op = "delete_milestones"
            /\ delete_milestones(ids)
            /\ stripped_ids(ids) # << >>
            /\ \A i \in DOMAIN stripped_ids(ids) : ~IsValueError(stripped_ids(ids)[i]) )
          => /\ milestones' = Remove(milestones, C18_Listed(ids))
             /\ projects' = projects
             /\ response'.kind = "redirect"
             /\ response'.shown =
                   <<Cardinality(C18_Listed(ids) \cap DOMAIN milestones)>>]_vars

(***************************************************************************)
(* C19  Eager persisted recompute on every status-displaying read.         *)
(***************************************************************************)
\* the projects a read displays: all of them on the dashboard, the one
\* looked up on the project page
C19_Displayed ==
    IF response'.op = "dashboard" THEN DOMAIN projects' ELSE {response'.shown[1]}

\* C19: after dashboard or view_project at today, every displayed project
\* that is not Completed stores its automatic status at today, every
\* displayed milestone that is not Completed and ended before today stores
\* Overdue, and nothing but status fields has changed.
C19_EagerRecompute ==
    [][( /\ response'.op \in {"dashboard", "view_project"}
         /\ response'.kind = "render"
         /\ today' = today )
       => /\ \A p \in C19_Displayed :
                projects'[p].status # "Completed"
                    => projects'[p].status = AutomaticStatus(projects'[p], today)
          /\ \A m \in DOMAIN milestones' :
                ( /\ milestones'[m].project_id \in C19_Displayed
                  /\ milestones'[m].status # "Completed"
                  /\ milestones'[m].end_date < today )
                    => milestones'[m].status = "Overdue"
          /\ DOMAIN projects' = DOMAIN projects
          /\ DOMAIN milestones' = DOMAIN milestones
          /\ \A p \in DOMAIN projects :
                [projects'[p] EXCEPT !.status = projects[p].status] = projects[p]
          /\ \A m \in DOMAIN milestones :
                [milestones'[m] EXCEPT !.status = milestones[m].status]
                    = milestones[m]]_vars

(***************************************************************************)
(* C20  Overdue is stable while time moves forward.                        *)
(***************************************************************************)
\* C20: a milestone with start_date <= end_date on which a recompute has
\* stored Overdue derives to Overdue at today and at every later day, and
\* its effective status leaves Overdue only in a step of edit_milestone or
\* update_milestone_status that changes the milestone.
C20_OverdueStable ==
    /\ [](\A m \in DOMAIN milestones :
             ( /\ milestones[m].status = "Overdue"
               /\ milestones[m].start_date <= milestones[m].end_date )
             => \A d \in Days :
                   d >= today => get_milestone_status(milestones[m], d) = "Overdue")
    /\ [][\A m \in DOMAIN milestones :
             ( /\ milestones[m].status = "Overdue"
               /\ milestones[m].start_date <= milestones[m].end_date
               /\ m \in DOMAIN milestones'
               /\ get_milestone_status(milestones'[m], today') # "Overdue" )
             => /\ today' = today
                /\ response'.op \in {"edit_milestone", "update_milestone_status"}
                /\ milestones'[m] # milestones[m]]_vars

\* a recompute has just run on a milestone that is stored Overdue and whose
\* end date lies more than a day back
C20_Witness ==
    /\ response.op \in {"dashboard", "view_project"}
    /\ \E m \in DOMAIN milestones :
          /\ milestones[m].status = "Overdue"
          /\ milestones[m].start_date <= milestones[m].end_date
          /\ milestones[m].end_date + 1 < today

(***************************************************************************)
(* C21  Frame condition of edit_milestone on the parent project.           *)
(***************************************************************************)
\* C21: an accepted edit_milestone changes the stored status of the parent
\* project only when that status was Completed before: a project with
\* milestones whose status is Not Started, In Progress, Overdue or
\* Not Completed keeps it, whatever the old and the new status of the
\* milestone are.
C21_ParentFrame ==
    [][( /\ response'.op = "edit_milestone"
         /\ response'.kind = "redirect"
         /\ today' = today )
       => \A m \in DOMAIN milestones :
             LET p == milestones[m].project_id
             IN  ( /\ p \in DOMAIN projects
                   /\ projects[p].status # "Completed" )
                 => /\ p \in DOMAIN projects'
                    /\ projects'[p].status = projects[p].status]_vars

(***************************************************************************)
(* C22  The two overdue computations agree.                                *)
(***************************************************************************)
\* C22: for every milestone with start_date <= end_date, every stored
\* status and every day, the dashboard sets the stored status to Overdue
\* (end_date < today and stored status not Completed) exactly when
\* get_milestone_status returns Overdue for the same stored status and day.
C22_OverdueAgree ==
    ( /\ call.fn = "overdue"
      /\ call.start_date <= call.end_date
      /\ call.set_overdue # << >>
      /\ call.actual_status # << >> )
    => /\ call.set_overdue[1] <=> (call.actual_status[1] = "Overdue")
       /\ call.set_overdue[1] => call.stored[1] = "Overdue"

\* both computations have run on a milestone stored In Progress whose end
\* date is past, and both make it Overdue
C22_Witness ==
    /\ call.fn = "overdue"
    /\ call.status = "In Progress"
    /\ call.start_date <= call.end_date
    /\ call.end_date < call.today
    /\ call.set_overdue = <<TRUE>>
    /\ call.stored = <<"Overdue">>
    /\ call.actual_status = <<"Overdue">>

\* both computations have run before the end date on a milestone stored
\* Overdue: the dashboard does not set it and the derivation is not Overdue
C22_WitnessNot ==
    /\ call.fn = "overdue"
    /\ call.status = "Overdue"
    /\ call.start_date <= call.today
    /\ call.today <= call.end_date
    /\ call.set_overdue = <<FALSE>>
    /\ call.actual_status = <<"In Progress">>

====
